---- MODULE Spec2Model ----
(***************************************************************************)
(* Model of the eg search pipeline (src/src/rust): the RustCrateSearch     *)
(* builder, the three-tier VersionResolver, the CacheManager lookup, the   *)
(* CrateExtractor and the GitHubFallback.                                  *)
(*                                                                         *)
(* The outside world (crates.io, cargo metadata, the cargo cache, the      *)
(* download server, the GitHub content API) is the record env.  An answer  *)
(* of the outside world is either known from the start or drawn when the   *)
(* program first asks for it; once known it is kept, so that a behaviour   *)
(* describes one unchanged environment.                                    *)
(***************************************************************************)
EXTENDS Integers, Sequences, FiniteSets, TLC

(***************************************************************************)
(* Bounds of the model.                                                    *)
(***************************************************************************)
MaxVersions == 3     \* length of the registry's published version list
MaxPackages == 2     \* length of the project's resolved package list
MaxEntries  == 2     \* number of entries of a crate archive
MaxItems    == 2     \* number of items of a content-API directory listing
MaxText     == 3     \* number of scalar values of a text handed to find_matches
MaxPattern  == 2     \* number of characters of a pattern handed to find_matches
MaxSearches == 2     \* number of searches a caller runs one after the other

(***************************************************************************)
(* Result<T> and Option<T>.                                                *)
(***************************************************************************)
Ok(v)  == [ok |-> TRUE, val |-> v]
Err(k, m) == [ok |-> FALSE, kind |-> k, msg |-> m]
None == [some |-> FALSE]
Some(v) == [some |-> TRUE, val |-> v]
Unknown == [known |-> FALSE]

RECURSIVE SeqsUpTo(_, _)
SeqsUpTo(S, n) ==
  IF n = 0 THEN {<<>>}
  ELSE LET shorter == SeqsUpTo(S, n - 1)
       IN shorter \cup {Append(s, x) : s \in {t \in shorter : Len(t) = n - 1}, x \in S}

Last(s) == s[Len(s)]

(***************************************************************************)
(* semver.  A version string is the sequence of its dot-separated numeric  *)
(* components; a Version is a record.  Version::parse accepts exactly      *)
(* three components.                                                       *)
(***************************************************************************)
VersionParse(s) ==
  IF Len(s) = 3 THEN Ok([major |-> s[1], minor |-> s[2], patch |-> s[3]])
  ELSE Err("VersionError", "parse")

VersionToString(v) == <<v.major, v.minor, v.patch>>

VersionLess(a, b) ==
  \/ a.major < b.major
  \/ a.major = b.major /\ a.minor < b.minor
  \/ a.major = b.major /\ a.minor = b.minor /\ a.patch < b.patch

\* A constraint string is <<op, n1, ..>> with one to three numbers, or <<"*">>.
\* A missing minor or patch is -1 in the parsed requirement.
VersionReqParse(c) ==
  IF c = <<"*">> THEN Ok([op |-> "*", major |-> -1, minor |-> -1, patch |-> -1])
  ELSE IF Len(c) >= 2 /\ Len(c) <= 4 /\ c[1] \in {"^", "=", ">="}
       THEN Ok([op |-> c[1], major |-> c[2],
                minor |-> IF Len(c) >= 3 THEN c[3] ELSE -1,
                patch |-> IF Len(c) >= 4 THEN c[4] ELSE -1])
       ELSE Err("VersionError", "parse")

ReqMatches(req, v) ==
  CASE req.op = "*" -> TRUE
    [] req.op = "=" ->
         /\ v.major = req.major
         /\ req.minor = -1 \/ v.minor = req.minor
         /\ req.patch = -1 \/ v.patch = req.patch
    [] req.op = ">=" ->
         ~VersionLess(v, [major |-> req.major,
                          minor |-> IF req.minor = -1 THEN 0 ELSE req.minor,
                          patch |-> IF req.patch = -1 THEN 0 ELSE req.patch])
    [] req.op = "^" ->
         /\ v.major = req.major
         /\ CASE req.minor = -1 -> TRUE
              [] req.minor # -1 /\ req.patch = -1 ->
                   IF req.major > 0 THEN v.minor >= req.minor ELSE v.minor = req.minor
              [] OTHER ->
                   IF req.major > 0
                   THEN v.minor > req.minor \/ (v.minor = req.minor /\ v.patch >= req.patch)
                   ELSE IF req.minor > 0
                        THEN v.minor = req.minor /\ v.patch >= req.patch
                        ELSE v.minor = req.minor /\ v.patch = req.patch

(***************************************************************************)
(* VersionResolver (version.rs).                                           *)
(***************************************************************************)
RECURSIVE ParseAll(_)
\* get_available_versions: the published strings that parse, in list order
ParseAll(nums) ==
  IF nums = <<>> THEN <<>>
  ELSE LET p == VersionParse(Head(nums))
       IN IF p.ok THEN <<p.val>> \o ParseAll(Tail(nums)) ELSE ParseAll(Tail(nums))

get_available_versions(reply) ==
  IF reply.ok THEN Ok(ParseAll(reply.val)) ELSE reply

\* select_matching without the sort: the last match in registry order
select_matching_unsorted(req, available_versions) ==
  LET matching_versions == SelectSeq(available_versions, LAMBDA v : ReqMatches(req, v))
  IN IF matching_versions = <<>> THEN Err("VersionError", "no match")
     ELSE Ok(VersionToString(Last(matching_versions)))

\* select_matching that settles for the greatest published version when none matches
select_matching_or_latest(req, available_versions) ==
  LET matching_versions == SelectSeq(available_versions, LAMBDA v : ReqMatches(req, v))
      sorted == SortSeq(IF matching_versions = <<>> THEN available_versions
                        ELSE matching_versions, VersionLess)
  IN IF sorted = <<>> THEN Err("VersionError", "no match")
     ELSE Ok(VersionToString(Last(sorted)))

\* the part of resolve_version_constraint after the two fallible calls
select_matching(req, available_versions) ==
  LET matching_versions == SelectSeq(available_versions, LAMBDA v : ReqMatches(req, v))
      sorted == SortSeq(matching_versions, VersionLess)
  IN IF sorted = <<>> THEN Err("VersionError", "no match")
     ELSE Ok(VersionToString(Last(sorted)))

RECURSIVE FirstNamed_greatest(_, _)
\* the loop of find_in_current_project keeping the greatest version of the name
FirstNamed_greatest(packages, crate_name) ==
  IF packages = <<>> THEN Err("ProjectError", "not found")
  ELSE LET rest == FirstNamed_greatest(Tail(packages), crate_name)
       IN IF Head(packages).name # crate_name THEN rest
          ELSE IF rest.ok /\ VersionLess(Head(packages).version, VersionParse(rest.val).val)
               THEN rest
               ELSE Ok(VersionToString(Head(packages).version))

RECURSIVE FirstNamed(_, _)
\* the loop of find_in_current_project
FirstNamed(packages, crate_name) ==
  IF packages = <<>> THEN Err("ProjectError", "not found")
  ELSE IF Head(packages).name = crate_name
       THEN Ok(VersionToString(Head(packages).version))
       ELSE FirstNamed(Tail(packages), crate_name)

\* find_in_current_project without the name test: the first package wins
find_in_current_project_any_name(reply, crate_name) ==
  IF ~reply.ok THEN reply
  ELSE IF reply.val = <<>> THEN Err("ProjectError", "not found")
       ELSE Ok(VersionToString(Head(reply.val).version))

find_in_current_project(reply, crate_name) ==
  IF reply.ok THEN FirstNamed(reply.val, crate_name) ELSE reply

get_latest_version(reply) ==
  IF reply.ok THEN Ok(reply.val.max_version) ELSE reply

(***************************************************************************)
(* Text.  A String is a sequence of scalar values; "U" is a scalar value   *)
(* of two bytes (U1 U2).  File bytes are sequences of byte tokens; "FF"    *)
(* and a torn two-byte sequence are not UTF-8.                             *)
(***************************************************************************)
CharLen(c) == IF c = "U" THEN 2 ELSE 1

RECURSIVE Utf8Decode(_)
Utf8Decode(bytes) ==
  IF bytes = <<>> THEN Ok(<<>>)
  ELSE IF Head(bytes) \in {"a", "b", "\n"}
       THEN LET rest == Utf8Decode(Tail(bytes))
            IN IF rest.ok THEN Ok(<<Head(bytes)>> \o rest.val) ELSE rest
       ELSE IF Head(bytes) = "U1" /\ Len(bytes) >= 2 /\ bytes[2] = "U2"
            THEN LET rest == Utf8Decode(Tail(Tail(bytes)))
                 IN IF rest.ok THEN Ok(<<"U">> \o rest.val) ELSE rest
            ELSE Err("Utf8", "invalid")

RECURSIVE ByteOffset(_, _)
\* byte offset of the i-th scalar value (1-based; Len+1 is the end)
ByteOffset(content, i) ==
  IF i <= 1 THEN 0 ELSE ByteOffset(content, i - 1) + CharLen(content[i - 1])

(***************************************************************************)
(* regex.  A pattern source is a sequence of characters; the patterns of   *)
(* the model are literals, and "(" opens a group that is never closed.     *)
(***************************************************************************)
RegexNew(pattern) ==
  IF \E i \in 1..Len(pattern) : pattern[i] = "("
  THEN Err("Other", "Invalid regex pattern")
  ELSE Ok([lit |-> pattern])

MatchesAt(content, lit, i) ==
  /\ i + Len(lit) - 1 <= Len(content)
  /\ \A k \in 1..Len(lit) : content[i + k - 1] = lit[k]

RECURSIVE FindIter_overlapping(_, _, _)
\* find_iter that resumes one character after the start of a match
FindIter_overlapping(content, regex, i) ==
  IF i > Len(content) + 1 THEN <<>>
  ELSE IF MatchesAt(content, regex.lit, i)
       THEN <<[start |-> ByteOffset(content, i),
               end   |-> ByteOffset(content, i + Len(regex.lit))]>>
            \o FindIter_overlapping(content, regex, i + 1)
       ELSE FindIter_overlapping(content, regex, i + 1)

RECURSIVE FindIter(_, _, _)
\* Regex::find_iter: leftmost, non-overlapping matches as byte spans
FindIter(content, regex, i) ==
  IF i > Len(content) + 1 THEN <<>>
  ELSE IF MatchesAt(content, regex.lit, i)
       THEN <<[start |-> ByteOffset(content, i),
               end   |-> ByteOffset(content, i + Len(regex.lit))]>>
            \o FindIter(content, regex,
                        IF Len(regex.lit) = 0 THEN i + 1 ELSE i + Len(regex.lit))
       ELSE FindIter(content, regex, i + 1)

(***************************************************************************)
(* CrateExtractor (extraction.rs).                                         *)
(***************************************************************************)
RECURSIVE LineColFrom_counting_bytes(_, _, _, _, _, _)
\* the loop of byte_to_line_col with a column per byte
LineColFrom_counting_bytes(content, k, i, byte_pos, line, col) ==
  IF k > Len(content) \/ i >= byte_pos THEN <<line, col>>
  ELSE IF content[k] = "\n"
       THEN LineColFrom_counting_bytes(content, k + 1, i + CharLen(content[k]), byte_pos,
                                       line + 1, 1)
       ELSE LineColFrom_counting_bytes(content, k + 1, i + CharLen(content[k]), byte_pos,
                                       line, col + CharLen(content[k]))

RECURSIVE LineColFrom(_, _, _, _, _, _)
\* the loop of byte_to_line_col: k is the next scalar value, i its byte offset
LineColFrom(content, k, i, byte_pos, line, col) ==
  IF k > Len(content) \/ i >= byte_pos THEN <<line, col>>
  ELSE IF content[k] = "\n"
       THEN LineColFrom(content, k + 1, i + CharLen(content[k]), byte_pos, line + 1, 1)
       ELSE LineColFrom(content, k + 1, i + CharLen(content[k]), byte_pos, line, col + 1)

\* byte_to_line_col with the column counted from 0
byte_to_line_col_zero_based(content, byte_pos) == LineColFrom(content, 1, 0, byte_pos, 1, 0)

byte_to_line_col(content, byte_pos) == LineColFrom(content, 1, 0, byte_pos, 1, 1)

RECURSIVE RangesOf(_, _)
\* the `as u32` casts keep the offsets: a text of the model is a few bytes long
RangesOf(content, mats) ==
  IF mats = <<>> THEN <<>>
  ELSE LET mat == Head(mats)
           s == byte_to_line_col(content, mat.start)
           e == byte_to_line_col(content, mat.end)
       IN <<[byte_start |-> mat.start, line_start |-> s[1], column_start |-> s[2],
             byte_end |-> mat.end, line_end |-> e[1], column_end |-> e[2]]>>
          \o RangesOf(content, Tail(mats))

find_matches(content, regex) == RangesOf(content, FindIter(content, regex, 1))

\* is_example_file that asks for the directory alone, whatever the extension
is_example_file_any_extension(path) ==
  \E i \in 1..Len(path) : path[i] = <<"examples", "">>

\* A path is a sequence of components, a component is <<stem, extension>>.
is_example_file(path) ==
  /\ \E i \in 1..Len(path) : path[i] = <<"examples", "">>
  /\ path # <<>> /\ Last(path)[2] = "rs"

file_name(path) == IF path = <<>> THEN <<"unknown", "">> ELSE Last(path)

ExampleInMemory(filename, contents, search_matches) ==
  [tag |-> "ExampleInMemory", filename |-> filename, contents |-> contents,
   search_matches |-> search_matches]

MatchesFor(content, pattern) ==
  IF pattern.some THEN find_matches(content, pattern.val) ELSE <<>>

RECURSIVE ExtractLoop_skipping_undecodable(_, _, _)
\* ExtractLoop that leaves out a file whose bytes are not UTF-8
ExtractLoop_skipping_undecodable(entries, pattern, examples) ==
  IF entries = <<>> THEN Ok(examples)
  ELSE LET entry == Head(entries)
       IN IF ~entry.ok THEN Err("ExtractionError", "Failed to read archive entry")
          ELSE IF is_example_file(entry.val.path) /\ Utf8Decode(entry.val.bytes).ok
               THEN LET content == Utf8Decode(entry.val.bytes)
                    IN ExtractLoop_skipping_undecodable(Tail(entries), pattern,
                         Append(examples,
                                ExampleInMemory(file_name(entry.val.path), content.val,
                                                MatchesFor(content.val, pattern))))
               ELSE ExtractLoop_skipping_undecodable(Tail(entries), pattern, examples)

RECURSIVE ExtractLoop(_, _, _)
ExtractLoop(entries, pattern, examples) ==
  IF entries = <<>> THEN Ok(examples)
  ELSE LET entry == Head(entries)
       IN IF ~entry.ok THEN Err("ExtractionError", "Failed to read archive entry")
          ELSE IF is_example_file(entry.val.path)
               THEN LET content == Utf8Decode(entry.val.bytes)
                    IN IF ~content.ok
                       THEN Err("ExtractionError", "Failed to read file content")
                       ELSE ExtractLoop(Tail(entries), pattern,
                              Append(examples,
                                     ExampleInMemory(file_name(entry.val.path), content.val,
                                                     MatchesFor(content.val, pattern))))
               ELSE ExtractLoop(Tail(entries), pattern, examples)

\* archive is the outcome of archive.entries(): an error or the entry stream
extract_examples_from_reader(archive, pattern) ==
  IF ~archive.ok THEN Err("ExtractionError", "Failed to read archive entries")
  ELSE ExtractLoop(archive.val, pattern, <<>>)

\* extract_examples_from_file that takes a file it cannot open for an empty archive
extract_examples_from_file_missing_as_empty(open, pattern) ==
  IF ~open.ok THEN Ok(<<>>) ELSE extract_examples_from_reader(open.val, pattern)

extract_examples_from_file(open, pattern) ==
  IF ~open.ok THEN open ELSE extract_examples_from_reader(open.val, pattern)

\* extract_examples_from_download that reads the body whatever the status
extract_examples_from_download_any_status(response, pattern) ==
  IF ~response.ok THEN response
  ELSE IF ~response.val.bytes.ok THEN response.val.bytes
       ELSE extract_examples_from_reader(response.val.bytes.val, pattern)

extract_examples_from_download(response, pattern) ==
  IF ~response.ok THEN response
  ELSE IF ~response.val.success
       THEN Err("DownloadError", "Failed to download crate: HTTP status")
       ELSE IF ~response.val.bytes.ok THEN response.val.bytes
            ELSE extract_examples_from_reader(response.val.bytes.val, pattern)

(***************************************************************************)
(* GitHubFallback (github.rs).  A URL is a sequence of tokens: "/" is the  *)
(* separator, ".git" the suffix, every other token a piece of text without *)
(* either.  GithubTexts are the pieces that contain the text "github.com". *)
(***************************************************************************)
GithubTexts == {"github.com", "notgithub.com", "r?mirror=github.com"}

get_repository_url(reply) ==
  IF ~reply.ok THEN reply
  ELSE IF reply.val.repository.some THEN Ok(reply.val.repository.val)
       ELSE Err("GitHubError", "No repository URL found")

is_github_url(url) == \E i \in 1..Len(url) : url[i] \in GithubTexts

RECURSIVE TrimEndGit(_)
TrimEndGit(url) ==
  IF url # <<>> /\ Last(url) = ".git" THEN TrimEndGit(SubSeq(url, 1, Len(url) - 1))
  ELSE url

RECURSIVE Split(_)
\* str::split('/')
Split(url) ==
  IF \E i \in 1..Len(url) : url[i] = "/"
  THEN LET i == CHOOSE j \in 1..Len(url) :
                  url[j] = "/" /\ \A k \in 1..(j - 1) : url[k] # "/"
       IN <<SubSeq(url, 1, i - 1)>> \o Split(SubSeq(url, i + 1, Len(url)))
  ELSE <<url>>

parse_github_url(url0) ==
  LET url == TrimEndGit(url0)
      parts == Split(url)
  IN IF Len(parts) >= 2
     THEN Ok([owner |-> parts[Len(parts) - 1], repo |-> parts[Len(parts)]])
     ELSE Err("GitHubError", "Invalid GitHub URL format")

\* Transport encoding of a file: a sequence of symbols, each a line break,
\* a symbol that decodes to one byte, or a symbol outside the alphabet.
StripNewlines(encoded) == SelectSeq(encoded, LAMBDA x : x.sym # "nl")

RECURSIVE DecodeBytes(_)
DecodeBytes(encoded) ==
  IF encoded = <<>> THEN <<>> ELSE <<Head(encoded).byte>> \o DecodeBytes(Tail(encoded))

Base64Decode(encoded) ==
  IF \E i \in 1..Len(encoded) : encoded[i].sym # "b64"
  THEN Err("GitHubError", "Failed to decode file content")
  ELSE Ok(DecodeBytes(encoded))

RECURSIVE github_LineColFrom(_, _, _, _, _, _)
github_LineColFrom(content, k, i, byte_pos, line, col) ==
  IF k > Len(content) \/ i >= byte_pos THEN <<line, col>>
  ELSE IF content[k] = "\n"
       THEN github_LineColFrom(content, k + 1, i + CharLen(content[k]), byte_pos, line + 1, 1)
       ELSE github_LineColFrom(content, k + 1, i + CharLen(content[k]), byte_pos, line, col + 1)

github_byte_to_line_col(content, byte_pos) ==
  github_LineColFrom(content, 1, 0, byte_pos, 1, 1)

RECURSIVE github_RangesOf(_, _)
github_RangesOf(content, mats) ==
  IF mats = <<>> THEN <<>>
  ELSE LET mat == Head(mats)
           s == github_byte_to_line_col(content, mat.start)
           e == github_byte_to_line_col(content, mat.end)
       IN <<[byte_start |-> mat.start, line_start |-> s[1], column_start |-> s[2],
             byte_end |-> mat.end, line_end |-> e[1], column_end |-> e[2]]>>
          \o github_RangesOf(content, Tail(mats))

github_find_matches(content, regex) == github_RangesOf(content, FindIter(content, regex, 1))

RECURSIVE ListingLoop(_, _, _)
ListingLoop(items, pattern, examples) ==
  IF items = <<>> THEN Ok(examples)
  ELSE LET item == Head(items)
       IN IF item.type = "File" /\ item.name[2] = "rs" /\ item.content.some
          THEN LET decoded_bytes == Base64Decode(StripNewlines(item.content.val))
               IN IF ~decoded_bytes.ok THEN decoded_bytes
                  ELSE LET content == Utf8Decode(decoded_bytes.val)
                       IN IF ~content.ok THEN Err("GitHubError", "Invalid UTF-8 in file")
                          ELSE ListingLoop(Tail(items), pattern,
                                 Append(examples,
                                   ExampleInMemory(item.name, content.val,
                                     IF pattern.some
                                     THEN github_find_matches(content.val, pattern.val)
                                     ELSE <<>>)))
          ELSE ListingLoop(Tail(items), pattern, examples)

\* listing_result that swallows only the not-found reply
listing_result_propagating(contents, pattern) ==
  IF contents.ok THEN ListingLoop(contents.val, pattern, <<>>)
  ELSE IF contents.msg = "NotFound" THEN Ok(<<>>) ELSE contents

\* the match on the content-API reply in search_github_examples
listing_result(contents, pattern) ==
  IF contents.ok THEN ListingLoop(contents.val, pattern, <<>>)
  ELSE Ok(<<>>)

search_github_examples(octocrab, contents, pattern) ==
  IF ~octocrab.ok THEN octocrab ELSE listing_result(contents, pattern)

\* search_examples: crate_info, octocrab and contents are the answers to its requests
search_examples(crate_name, ver, pattern, crate_info, octocrab, contents) ==
  LET repo_url == get_repository_url(crate_info)
  IN IF ~repo_url.ok THEN repo_url
     ELSE IF ~is_github_url(repo_url.val) THEN Ok(<<>>)
          ELSE LET parsed == parse_github_url(repo_url.val)
               IN IF ~parsed.ok THEN parsed
                  ELSE search_github_examples(octocrab, contents, pattern)

(***************************************************************************)
(* RustCrateSearch (mod.rs): the result of a search.                       *)
(***************************************************************************)
RECURSIVE CountMatched(_)
CountMatched(examples) ==
  IF examples = <<>> THEN 0
  ELSE (IF Head(examples).search_matches # <<>> THEN 1 ELSE 0) + CountMatched(Tail(examples))

\* matched_examples_of without the no-pattern branch
matched_examples_of_counted(final_examples, pattern) == CountMatched(final_examples)

matched_examples_of(final_examples, pattern) ==
  IF pattern.some THEN CountMatched(final_examples) ELSE Len(final_examples)

build_result(version, final_examples, pattern) ==
  [version |-> version,
   total_examples |-> Len(final_examples),
   matched_examples |-> matched_examples_of(final_examples, pattern),
   examples |-> final_examples]

(***************************************************************************)
(* The answers the outside world can give.                                 *)
(***************************************************************************)
CrateName == "c"

VerStrs == {<<0, 9, 0>>, <<1, 0, 0>>, <<1, 2, 3>>, <<2, 0, 0>>, <<1, 0>>}
Constraints == {<<"^", 1, 0>>, <<"=", 2, 0, 0>>, <<">=", 1, 2>>, <<"*">>, <<"^">>}
PatternStrs == {<<"a">>, <<"a", "b">>, <<"(">>}

VersionsReplies ==
  {Err("DownloadError", "Failed to get versions")}
    \cup {Ok(l) : l \in SeqsUpTo(VerStrs, MaxVersions)}

Packages ==
  {[name |-> "c", version |-> [major |-> 3, minor |-> 4, patch |-> 1]],
   [name |-> "c", version |-> [major |-> 1, minor |-> 0, patch |-> 0]],
   [name |-> "d", version |-> [major |-> 1, minor |-> 0, patch |-> 0]]}

MetadataReplies ==
  {Err("ProjectError", "cargo metadata")}
    \cup {Ok(l) : l \in SeqsUpTo(Packages, MaxPackages)}

RepoUrls ==
  {<<"https:", "/", "/", "github.com", "/", "o", "/", "r">>,
   <<"https:", "/", "/", "github.com", "/", "o", "/", "r", ".git">>,
   <<"https:", "/", "/", "gitlab.com", "/", "o", "/", "r">>,
   <<"https:", "/", "/", "notgithub.com", "/", "o", "/", "r">>,
   <<"https:", "/", "/", "gitlab.com", "/", "github.com", "/", "r">>,
   <<"https:", "/", "/", "gitlab.com", "/", "o", "/", "r?mirror=github.com">>,
   <<"github.com">>}

CrateErrs ==
  {Err("Other", "client"), Err("DownloadError", "Failed to get crate info")}

CrateReplies ==
  CrateErrs \cup {Ok([max_version |-> m, repository |-> r]) :
                    m \in {<<2, 0, 0>>, <<1, 2, 3>>},
                    r \in {None} \cup {Some(u) : u \in RepoUrls}}

CacheReplies == {Err("CargoHomeNotFound", "cargo home"), Ok(TRUE), Ok(FALSE)}

Pkg == <<"c-1", "">>
Entries ==
  {Ok([path |-> <<Pkg, <<"examples", "">>, <<"basic", "rs">>>>, bytes |-> <<"a", "b">>]),
   Ok([path |-> <<Pkg, <<"examples", "">>, <<"sub", "">>, <<"main", "rs">>>>,
       bytes |-> <<"b", "\n", "U1", "U2">>]),
   Ok([path |-> <<Pkg, <<"src", "">>, <<"lib", "rs">>>>, bytes |-> <<"FF">>]),
   Ok([path |-> <<Pkg, <<"examples", "">>, <<"data", "txt">>>>, bytes |-> <<"a">>]),
   Ok([path |-> <<Pkg, <<"examples", "">>, <<"bad", "rs">>>>, bytes |-> <<"a", "FF">>]),
   Err("Io", "corrupt entry")}

Archives ==
  {Err("Io", "not a gzip stream")} \cup {Ok(l) : l \in SeqsUpTo(Entries, MaxEntries)}

FileReplies == {Err("IoError", "open")} \cup {Ok(a) : a \in Archives}

DownloadReplies ==
  {Err("DownloadError", "transport"),
   Ok([success |-> FALSE, bytes |-> Err("DownloadError", "body")]),
   Ok([success |-> TRUE, bytes |-> Err("DownloadError", "body")])}
    \cup {Ok([success |-> TRUE, bytes |-> Ok(a)]) : a \in Archives}

B64(x) == [sym |-> "b64", byte |-> x]
Newline == [sym |-> "nl", byte |-> "-"]
NotB64 == [sym |-> "bad", byte |-> "-"]

Items ==
  {[type |-> "File", name |-> <<"main", "rs">>,
    content |-> Some(<<B64("a"), Newline, B64("b"), Newline>>)],
   [type |-> "File", name |-> <<"util", "rs">>, content |-> Some(<<B64("b")>>)],
   [type |-> "File", name |-> <<"README", "md">>, content |-> Some(<<B64("a")>>)],
   [type |-> "Dir", name |-> <<"sub", "">>, content |-> None],
   [type |-> "File", name |-> <<"big", "rs">>, content |-> None],
   [type |-> "File", name |-> <<"x", "rs">>, content |-> Some(<<B64("a"), NotB64>>)],
   [type |-> "File", name |-> <<"y", "rs">>, content |-> Some(<<B64("FF")>>)]}

ListingErrs ==
  {Err("GitHubError", "NotFound"), Err("GitHubError", "Transport"),
   Err("GitHubError", "RateLimited"), Err("GitHubError", "Unauthorized")}

ListingReplies == ListingErrs \cup {Ok(l) : l \in SeqsUpTo(Items, MaxItems)}

OctocrabReplies == {Ok("anonymous"), Ok("token"), Err("GitHubError", "build")}

(***************************************************************************)
(* State.                                                                  *)
(***************************************************************************)
VARIABLES
  pc,           \* "builder", "cache", "extract", "fallback", "listing", "done", "rejected"
  self,         \* the RustCrateSearch: crate_name, version_spec, pattern
  compiled,     \* number of Regex::new calls
  version,      \* the resolved version, once resolve_version returned it
  cached_path,  \* what find_cached_crate returned
  examples,     \* what the extractor returned
  owner_repo,   \* what parse_github_url returned
  result,       \* what pattern() or search() returned to the caller
  calls,        \* the requests made to the outside world, in order
  used,         \* the pattern handed to each component, in order
  env,          \* the answers of the outside world given so far
  earlier,      \* the searches that returned before this one, in order
  call          \* a component function applied on its own: its arguments and its value

vars == <<pc, self, compiled, version, cached_path, examples, owner_repo,
          result, calls, used, env, earlier, call>>

Slots == {"published", "metadata", "crate_latest", "cache", "file", "download",
          "crate_repo", "octocrab", "listing"}

Answers(slot, replies) ==
  IF env[slot].known THEN {env[slot].reply} ELSE replies

Answered(e, slot, reply) == [e EXCEPT ![slot] = [known |-> TRUE, reply |-> reply]]

\* crates.io gives the same crate record to both get_crate calls of a search,
\* unless the second call fails
RepoReplies ==
  IF env["crate_latest"].known /\ env["crate_latest"].reply.ok
  THEN {env["crate_latest"].reply} \cup CrateErrs
  ELSE CrateReplies

\* A fresh RustCrateSearch (RustCrateSearch::new) in a world that has answered e
Fresh(e) ==
  /\ pc = "builder"
  /\ self = [crate_name |-> CrateName, version_spec |-> None, pattern |-> None]
  /\ compiled = 0
  /\ version = None
  /\ cached_path = None
  /\ examples = <<>>
  /\ owner_repo = None
  /\ result = None
  /\ calls = <<>>
  /\ used = <<>>
  /\ env = e
  /\ earlier = <<>>
  /\ call = None

\* the registry's version list and the project's packages are known
SearchVersions ==
  {Err("DownloadError", "Failed to get versions"),
   Ok(<<(<<0, 9, 0>>), (<<1, 2, 3>>), (<<1, 0>>), (<<1, 0, 0>>), (<<2, 0, 0>>)>>)}

SearchMetadata ==
  {Err("ProjectError", "cargo metadata"),
   Ok(<<[name |-> "d", version |-> [major |-> 1, minor |-> 0, patch |-> 0]],
        [name |-> "c", version |-> [major |-> 3, minor |-> 4, patch |-> 1]]>>)}

\* and so is what the content API says of the repository's examples directory
SearchListings ==
  ListingErrs \cup
  {Ok(<<>>),
   Ok(<<[type |-> "File", name |-> <<"main", "rs">>,
         content |-> Some(<<B64("a"), Newline, B64("b"), Newline>>)],
        [type |-> "File", name |-> <<"util", "rs">>, content |-> Some(<<B64("b")>>)]>>),
   Ok(<<[type |-> "File", name |-> <<"big", "rs">>, content |-> None],
        [type |-> "File", name |-> <<"main", "rs">>,
         content |-> Some(<<B64("a"), Newline, B64("b"), Newline>>)]>>),
   Ok(<<[type |-> "File", name |-> <<"README", "md">>, content |-> Some(<<B64("a")>>)],
        [type |-> "Dir", name |-> <<"sub", "">>, content |-> None]>>),
   Ok(<<[type |-> "File", name |-> <<"util", "rs">>, content |-> Some(<<B64("b")>>)],
        [type |-> "File", name |-> <<"x", "rs">>, content |-> Some(<<B64("a"), NotB64>>)]>>),
   Ok(<<[type |-> "File", name |-> <<"y", "rs">>, content |-> Some(<<B64("FF")>>)]>>)}

InitSearch ==
  \E published \in SearchVersions, metadata \in SearchMetadata, contents \in SearchListings :
    Fresh(Answered(Answered(Answered([s \in Slots |-> Unknown], "published", published),
                            "metadata", metadata),
                   "listing", contents))

(***************************************************************************)
(* The builder: RustCrateSearch::version and RustCrateSearch::pattern.     *)
(***************************************************************************)
SetVersion(spec) ==
  /\ pc = "builder"
  /\ earlier = <<>>
  /\ ~self.version_spec.some
  /\ self' = [self EXCEPT !.version_spec = Some(spec)]
  /\ UNCHANGED <<pc, compiled, version, cached_path, examples, owner_repo,
                 result, calls, used, env>>
  /\ UNCHANGED <<earlier, call>>

\* pattern() that stores the source and leaves the compilation for later
SetPattern_unchecked(pattern) ==
  /\ pc = "builder"
  /\ earlier = <<>>
  /\ ~self.pattern.some
  /\ self' = [self EXCEPT !.pattern = Some([lit |-> pattern])]
  /\ UNCHANGED <<pc, compiled, version, cached_path, examples, owner_repo,
                 result, calls, used, env>>
  /\ UNCHANGED <<earlier, call>>

SetPattern(pattern) ==
  /\ pc = "builder"
  /\ earlier = <<>>
  /\ ~self.pattern.some
  /\ compiled' = compiled + 1
  /\ LET regex == RegexNew(pattern)
     IN IF regex.ok
        THEN /\ self' = [self EXCEPT !.pattern = Some(regex.val)]
             /\ UNCHANGED <<pc, result>>
        ELSE /\ pc' = "rejected"
             /\ result' = Some(regex)
             /\ UNCHANGED self
  /\ UNCHANGED <<version, cached_path, examples, owner_repo, calls, used, env>>
  /\ UNCHANGED <<earlier, call>>

(***************************************************************************)
(* RustCrateSearch::search, step 1: resolve_version.                       *)
(***************************************************************************)
resolve_version_constraint(constraint, reply) ==
  LET req == VersionReqParse(constraint)
  IN IF ~req.ok THEN req
     ELSE LET available_versions == get_available_versions(reply)
          IN IF ~available_versions.ok THEN available_versions
             ELSE select_matching(req.val, available_versions.val)

\* resolve_version with `?` on the project lookup
resolve_version_project_error(crate_name, version_spec, published, metadata, crate_info) ==
  IF version_spec.some
  THEN resolve_version_constraint(version_spec.val, published)
  ELSE find_in_current_project(metadata, crate_name)

\* explicit -> current project -> latest
resolve_version(crate_name, version_spec, published, metadata, crate_info) ==
  IF version_spec.some
  THEN resolve_version_constraint(version_spec.val, published)
  ELSE LET found == find_in_current_project(metadata, crate_name)
       IN IF found.ok THEN found ELSE get_latest_version(crate_info)

\* the `?` after resolve_version: an error is what search returns
Resolved(r) ==
  IF r.ok
  THEN /\ version' = Some(r.val)
       /\ pc' = "cache"
       /\ UNCHANGED result
  ELSE /\ result' = Some(r)
       /\ pc' = "done"
       /\ UNCHANGED version

\* tier 1: a constraint was given
ResolveConstraint ==
  /\ pc = "builder"
  /\ self.version_spec.some
  /\ LET asks == VersionReqParse(self.version_spec.val).ok
     IN \E reply \in IF asks THEN Answers("published", VersionsReplies) ELSE {Unknown} :
          /\ env' = IF asks THEN Answered(env, "published", reply) ELSE env
          /\ calls' = IF asks THEN Append(calls, "crate_versions") ELSE calls
          /\ Resolved(resolve_version(self.crate_name, self.version_spec, reply,
                                      Unknown, Unknown))
  /\ UNCHANGED <<self, compiled, cached_path, examples, owner_repo, used>>
  /\ UNCHANGED <<earlier, call>>

\* tier 2: no constraint, the project names the crate
ResolveFromProject ==
  /\ pc = "builder"
  /\ ~self.version_spec.some
  /\ \E metadata \in Answers("metadata", MetadataReplies) :
       LET found == find_in_current_project(metadata, self.crate_name)
       IN /\ found.ok
          /\ env' = Answered(env, "metadata", metadata)
          /\ calls' = Append(calls, "cargo_metadata")
          /\ Resolved(resolve_version(self.crate_name, self.version_spec, Unknown,
                                      metadata, Unknown))
  /\ UNCHANGED <<self, compiled, cached_path, examples, owner_repo, used>>
  /\ UNCHANGED <<earlier, call>>

\* tier 3: no constraint, the project lookup failed
ResolveLatest ==
  /\ pc = "builder"
  /\ ~self.version_spec.some
  /\ \E metadata \in Answers("metadata", MetadataReplies) :
       /\ ~find_in_current_project(metadata, self.crate_name).ok
       /\ \E crate_info \in Answers("crate_latest", CrateReplies) :
            /\ env' = Answered(Answered(env, "metadata", metadata), "crate_latest", crate_info)
            /\ calls' = calls \o <<"cargo_metadata", "get_crate_latest">>
            /\ Resolved(resolve_version(self.crate_name, self.version_spec, Unknown,
                                        metadata, crate_info))
  /\ UNCHANGED <<self, compiled, cached_path, examples, owner_repo, used>>
  /\ UNCHANGED <<earlier, call>>

(***************************************************************************)
(* Step 2: the cache lookup and the extraction.                            *)
(***************************************************************************)
\* CacheManager::new and find_cached_crate
find_cached_crate(reply, crate_name, ver) ==
  IF ~reply.ok THEN reply
  ELSE IF reply.val THEN Ok(Some(<<crate_name, ver>>)) ELSE Ok(None)

FindCachedCrate ==
  /\ pc = "cache"
  /\ \E reply \in Answers("cache", CacheReplies) :
       LET found == find_cached_crate(reply, self.crate_name, version.val)
       IN /\ env' = Answered(env, "cache", reply)
          /\ IF found.ok
             THEN /\ cached_path' = found.val
                  /\ calls' = Append(calls, "cache_exists")
                  /\ pc' = "extract"
                  /\ UNCHANGED result
             ELSE /\ result' = Some(found)
                  /\ pc' = "done"
                  /\ UNCHANGED <<cached_path, calls>>
  /\ UNCHANGED <<self, compiled, version, examples, owner_repo, used>>
  /\ UNCHANGED <<earlier, call>>

\* search that returns the extractor's result as it is, empty or not
Extracted_never_falls_back(r) ==
  IF ~r.ok
  THEN /\ result' = Some(r)
       /\ pc' = "done"
       /\ UNCHANGED examples
  ELSE /\ examples' = r.val
       /\ pc' = "done"
       /\ result' = Some(Ok(build_result(version.val, r.val, self.pattern)))

\* search that takes a failed extraction for an empty one
Extracted_error_as_empty(r) ==
  /\ examples' = IF r.ok THEN r.val ELSE <<>>
  /\ IF ~r.ok \/ r.val = <<>>
     THEN pc' = "fallback" /\ UNCHANGED result
     ELSE /\ pc' = "done"
          /\ result' = Some(Ok(build_result(version.val, r.val, self.pattern)))

\* what search does with the extractor's result, up to the next request
Extracted(r) ==
  IF ~r.ok
  THEN /\ result' = Some(r)
       /\ pc' = "done"
       /\ UNCHANGED examples
  ELSE /\ examples' = r.val
       /\ IF r.val = <<>>
          THEN pc' = "fallback" /\ UNCHANGED result
          ELSE /\ pc' = "done"
               /\ result' = Some(Ok(build_result(version.val, r.val, self.pattern)))

ExtractFromFile ==
  /\ pc = "extract"
  /\ cached_path.some
  /\ \E open \in Answers("file", FileReplies) :
       /\ env' = Answered(env, "file", open)
       /\ calls' = Append(calls, "file_open")
       /\ used' = Append(used, [by |-> "extractor", pattern |-> self.pattern])
       /\ Extracted(extract_examples_from_file(open, self.pattern))
  /\ UNCHANGED <<self, compiled, version, cached_path, owner_repo>>
  /\ UNCHANGED <<earlier, call>>

\* ExtractFromDownload that stores the downloaded archive in the cargo cache
ExtractFromDownload_filling_cache ==
  /\ pc = "extract"
  /\ ~cached_path.some
  /\ \E response \in Answers("download", DownloadReplies) :
       /\ env' = IF response.ok /\ response.val.success /\ response.val.bytes.ok
                 THEN Answered(Answered(Answered(env, "download", response),
                                        "cache", Ok(TRUE)),
                               "file", Ok(response.val.bytes.val))
                 ELSE Answered(env, "download", response)
       /\ calls' = Append(calls, "download")
       /\ used' = Append(used, [by |-> "extractor", pattern |-> self.pattern])
       /\ Extracted(extract_examples_from_download(response, self.pattern))
  /\ UNCHANGED <<self, compiled, version, cached_path, owner_repo>>
  /\ UNCHANGED <<earlier, call>>

\* ExtractFromDownload that leaves a file of its own making at the cache path
ExtractFromDownload_leaving_file ==
  /\ pc = "extract"
  /\ ~cached_path.some
  /\ \E response \in Answers("download", DownloadReplies) :
       /\ env' = [Answered(Answered(env, "download", response), "cache", Ok(TRUE))
                   EXCEPT !["file"] = Unknown]
       /\ calls' = Append(calls, "download")
       /\ used' = Append(used, [by |-> "extractor", pattern |-> self.pattern])
       /\ Extracted(extract_examples_from_download(response, self.pattern))
  /\ UNCHANGED <<self, compiled, version, cached_path, owner_repo>>
  /\ UNCHANGED <<earlier, call>>

ExtractFromDownload ==
  /\ pc = "extract"
  /\ ~cached_path.some
  /\ \E response \in Answers("download", DownloadReplies) :
       /\ env' = Answered(env, "download", response)
       /\ calls' = Append(calls, "download")
       /\ used' = Append(used, [by |-> "extractor", pattern |-> self.pattern])
       /\ Extracted(extract_examples_from_download(response, self.pattern))
  /\ UNCHANGED <<self, compiled, version, cached_path, owner_repo>>
  /\ UNCHANGED <<earlier, call>>

(***************************************************************************)
(* Step 3: GitHubFallback::search_examples, and step 4, the result.        *)
(***************************************************************************)
\* the `?` after search_examples, and the construction of the SearchResult
FellBack(r) ==
  /\ pc' = "done"
  /\ result' = IF r.ok
               THEN Some(Ok(build_result(version.val, r.val, self.pattern)))
               ELSE Some(r)

\* search_examples up to the content-API request
FallbackLookup ==
  /\ pc = "fallback"
  /\ \E crate_info \in Answers("crate_repo", RepoReplies) :
       LET repo_url == get_repository_url(crate_info)
       IN /\ env' = Answered(env, "crate_repo", crate_info)
          /\ calls' = Append(calls, "get_crate_repo")
          /\ used' = Append(used, [by |-> "fallback", pattern |-> self.pattern])
          /\ IF ~repo_url.ok
             THEN FellBack(repo_url) /\ UNCHANGED owner_repo
             ELSE IF ~is_github_url(repo_url.val)
                  THEN FellBack(Ok(<<>>)) /\ UNCHANGED owner_repo
                  ELSE LET parsed == parse_github_url(repo_url.val)
                       IN IF ~parsed.ok
                          THEN FellBack(parsed) /\ UNCHANGED owner_repo
                          ELSE /\ owner_repo' = Some(parsed.val)
                               /\ pc' = "listing"
                               /\ UNCHANGED result
  /\ UNCHANGED <<self, compiled, version, cached_path, examples>>
  /\ UNCHANGED <<earlier, call>>

\* search_github_examples that lists the directory at the tag of the resolved
\* version, in a repository that has no tag of that name
FallbackListing_at_version_tag ==
  /\ pc = "listing"
  /\ \E octocrab \in Answers("octocrab", OctocrabReplies) :
       /\ env' = Answered(env, "octocrab", octocrab)
       /\ calls' = IF octocrab.ok THEN Append(calls, "content_api") ELSE calls
       /\ FellBack(search_github_examples(octocrab, Err("GitHubError", "NotFound"),
                                          self.pattern))
  /\ UNCHANGED <<self, compiled, version, cached_path, examples, owner_repo, used>>
  /\ UNCHANGED <<earlier, call>>

\* search_github_examples
FallbackListing ==
  /\ pc = "listing"
  /\ \E octocrab \in Answers("octocrab", OctocrabReplies) :
       \E contents \in IF octocrab.ok THEN Answers("listing", ListingReplies) ELSE {Unknown} :
          /\ env' = IF octocrab.ok
                    THEN Answered(Answered(env, "octocrab", octocrab), "listing", contents)
                    ELSE Answered(env, "octocrab", octocrab)
          /\ calls' = IF octocrab.ok THEN Append(calls, "content_api") ELSE calls
          /\ FellBack(search_github_examples(octocrab, contents, self.pattern))
  /\ UNCHANGED <<self, compiled, version, cached_path, examples, owner_repo, used>>
  /\ UNCHANGED <<earlier, call>>

Next ==
  \/ \E spec \in Constraints : SetVersion(spec)
  \/ \E pattern \in PatternStrs : SetPattern(pattern)
  \/ ResolveConstraint
  \/ ResolveFromProject
  \/ ResolveLatest
  \/ FindCachedCrate
  \/ ExtractFromFile
  \/ ExtractFromDownload
  \/ FallbackLookup
  \/ FallbackListing

\* a search in a world whose registry and project are known
Spec == InitSearch /\ [][Next]_vars

\* version resolution alone, in every world within the bounds
NextResolve ==
  \/ \E spec \in Constraints : SetVersion(spec)
  \/ ResolveConstraint
  \/ ResolveFromProject
  \/ ResolveLatest

\* the project's packages are known, the registry is not
InitResolve ==
  \E metadata \in MetadataReplies :
    Fresh(Answered([s \in Slots |-> Unknown], "metadata", metadata))

SpecResolve == InitResolve /\ [][NextResolve]_vars

(***************************************************************************)
(* The same search run again: the caller builds a RustCrateSearch with the *)
(* arguments of the one that returned and calls search on it, in the world *)
(* the first search ran in.                                                *)
(***************************************************************************)
SearchAgain ==
  /\ pc = "done"
  /\ Len(earlier) < MaxSearches - 1
  /\ earlier' = Append(earlier, [self |-> self, result |-> result.val, calls |-> calls,
                                 cache |-> env["cache"], file |-> env["file"]])
  /\ pc' = "builder"
  /\ compiled' = IF self.pattern.some THEN 1 ELSE 0
  /\ version' = None
  /\ cached_path' = None
  /\ examples' = <<>>
  /\ owner_repo' = None
  /\ result' = None
  /\ calls' = <<>>
  /\ used' = <<>>
  /\ UNCHANGED <<self, env, call>>

\* the archive the download server serves and the archive file of the cache
TwiceDownloads ==
  {Ok([success |-> FALSE, bytes |-> Err("DownloadError", "body")]),
   Ok([success |-> TRUE, bytes |-> Ok(Ok(<<>>))]),
   Ok([success |-> TRUE,
       bytes |-> Ok(Ok(<<Ok([path |-> <<Pkg, <<"examples", "">>, <<"basic", "rs">>>>,
                             bytes |-> <<"a", "b">>]),
                         Ok([path |-> <<Pkg, <<"src", "">>, <<"lib", "rs">>>>,
                             bytes |-> <<"FF">>])>>))])}

TwiceFiles ==
  {Err("IoError", "open"),
   Ok(Ok(<<>>)),
   Ok(Ok(<<Ok([path |-> <<Pkg, <<"examples", "">>, <<"sub", "">>, <<"main", "rs">>>>,
               bytes |-> <<"b", "\n", "U1", "U2">>]),
           Ok([path |-> <<Pkg, <<"examples", "">>, <<"basic", "rs">>>>,
               bytes |-> <<"a", "b">>])>>))}

InitTwice ==
  \E published \in SearchVersions, metadata \in SearchMetadata, contents \in SearchListings,
     response \in TwiceDownloads, open \in TwiceFiles :
    Fresh(Answered(Answered(Answered(Answered(Answered([s \in Slots |-> Unknown],
            "published", published), "metadata", metadata), "listing", contents),
            "download", response), "file", open))

NextTwice ==
  \/ \E spec \in Constraints : SetVersion(spec)
  \/ \E pattern \in PatternStrs : SetPattern(pattern)
  \/ ResolveConstraint
  \/ ResolveFromProject
  \/ ResolveLatest
  \/ FindCachedCrate
  \/ ExtractFromFile
  \/ ExtractFromDownload
  \/ FallbackLookup
  \/ FallbackListing
  \/ SearchAgain

SpecTwice == InitTwice /\ [][NextTwice]_vars

(***************************************************************************)
(* A search next to another process that removes the cached archive after  *)
(* find_cached_crate saw it and before extract_examples_from_file opens it.*)
(***************************************************************************)
RemoveCachedFile ==
  /\ pc = "extract"
  /\ cached_path.some
  /\ env["cache"].reply = Ok(TRUE)
  /\ env' = Answered(Answered(env, "cache", Ok(FALSE)), "file", Err("IoError", "NotFound"))
  /\ UNCHANGED <<pc, self, compiled, version, cached_path, examples, owner_repo,
                 result, calls, used, earlier, call>>

NextRace ==
  \/ \E spec \in Constraints : SetVersion(spec)
  \/ \E pattern \in PatternStrs : SetPattern(pattern)
  \/ ResolveConstraint
  \/ ResolveFromProject
  \/ ResolveLatest
  \/ FindCachedCrate
  \/ RemoveCachedFile
  \/ ExtractFromFile
  \/ ExtractFromDownload
  \/ FallbackLookup
  \/ FallbackListing

SpecRace == InitTwice /\ [][NextRace]_vars

(***************************************************************************)
(* The component functions on their own: one call of a function of the     *)
(* extractor or of the fallback, on arguments within the bounds.           *)
(***************************************************************************)
Chars == {"a", "b", "\n", "U"}
Texts == SeqsUpTo(Chars, MaxText)
Regexes == {RegexNew(p).val : p \in SeqsUpTo(Chars, MaxPattern)}
BytePositions == 0..(2 * MaxText + 1)
CallPatterns == {None, Some([lit |-> <<"a">>]), Some([lit |-> <<"b", "\n">>])}

CallEntries ==
  Entries \cup
  {Ok([path |-> <<Pkg, <<"examples", "rs">>>>, bytes |-> <<"a">>]),
   Ok([path |-> <<Pkg, <<"src", "">>, <<"examples", "">>, <<"mod", "rs">>>>,
       bytes |-> <<"b", "\n", "a">>]),
   Ok([path |-> <<Pkg, <<"my_examples", "">>, <<"x", "rs">>>>, bytes |-> <<"a">>]),
   Ok([path |-> <<Pkg, <<"examples", "">>, <<"b", "">>, <<"main", "rs">>>>,
       bytes |-> <<"a">>]),
   Ok([path |-> <<Pkg, <<"examples", "">>>>, bytes |-> <<>>])}

CallArchives ==
  {Err("Io", "not a gzip stream")} \cup {Ok(l) : l \in SeqsUpTo(CallEntries, MaxEntries)}

\* URLs on the hosting service: a scheme, the host, a path and an ending
CallUrls ==
  RepoUrls \cup
  {<<scheme, "/", "/", "github.com">> \o path \o ending :
     scheme \in {"https:", "git:"},
     path \in {<<>>, <<"/", "o">>, <<"/", "o", "/", "r">>,
               <<"/", "o", "/", "r", "/", "tree", "/", "main">>},
     ending \in {<<>>, <<".git">>, <<"/">>}}

CallInputs ==
  {[some |-> TRUE, fn |-> "parse_github_url", url |-> u, ret |-> None] : u \in CallUrls}
  \cup
  {[some |-> TRUE, fn |-> f, content |-> t, regex |-> r, ret |-> None] :
     f \in {"find_matches", "github_find_matches"}, t \in Texts, r \in Regexes}
  \cup
  {[some |-> TRUE, fn |-> f, content |-> t, byte_pos |-> b, ret |-> None] :
     f \in {"byte_to_line_col", "github_byte_to_line_col"}, t \in Texts, b \in BytePositions}
  \cup
  {[some |-> TRUE, fn |-> "extract_examples_from_reader", archive |-> a, pattern |-> q,
    ret |-> None] : a \in CallArchives, q \in CallPatterns}
  \cup
  {[some |-> TRUE, fn |-> "search_github_examples", octocrab |-> o, contents |-> l,
    pattern |-> q, ret |-> None] :
     o \in OctocrabReplies, l \in ListingReplies, q \in CallPatterns}

pipeline == <<pc, self, compiled, version, cached_path, examples, owner_repo,
              result, calls, used, env, earlier>>

InitCall ==
  /\ pc = "builder"
  /\ self = [crate_name |-> CrateName, version_spec |-> None, pattern |-> None]
  /\ compiled = 0
  /\ version = None
  /\ cached_path = None
  /\ examples = <<>>
  /\ owner_repo = None
  /\ result = None
  /\ calls = <<>>
  /\ used = <<>>
  /\ env = [s \in Slots |-> Unknown]
  /\ earlier = <<>>
  /\ call \in CallInputs

Pending(f) == call.some /\ call.fn = f /\ ~call.ret.some

Returns(v) == call' = [call EXCEPT !.ret = Some(v)] /\ UNCHANGED pipeline

CallFindMatches ==
  /\ Pending("find_matches")
  /\ Returns(find_matches(call.content, call.regex))

CallGithubFindMatches ==
  /\ Pending("github_find_matches")
  /\ Returns(github_find_matches(call.content, call.regex))

CallByteToLineCol ==
  /\ Pending("byte_to_line_col")
  /\ Returns(byte_to_line_col(call.content, call.byte_pos))

CallGithubByteToLineCol ==
  /\ Pending("github_byte_to_line_col")
  /\ Returns(github_byte_to_line_col(call.content, call.byte_pos))

CallExtractFromReader ==
  /\ Pending("extract_examples_from_reader")
  /\ Returns(extract_examples_from_reader(call.archive, call.pattern))

CallSearchGithubExamples ==
  /\ Pending("search_github_examples")
  /\ Returns(search_github_examples(call.octocrab, call.contents, call.pattern))

CallParseGithubUrl ==
  /\ Pending("parse_github_url")
  /\ Returns(parse_github_url(call.url))

NextCall ==
  \/ CallParseGithubUrl
  \/ CallFindMatches
  \/ CallGithubFindMatches
  \/ CallByteToLineCol
  \/ CallGithubByteToLineCol
  \/ CallExtractFromReader
  \/ CallSearchGithubExamples

SpecCall == InitCall /\ [][NextCall]_vars

(***************************************************************************)
(* What the properties speak of.                                           *)
(***************************************************************************)
Requested(name) == \E i \in 1..Len(calls) : calls[i] = name

Reply(slot) == IF env[slot].known THEN env[slot].reply ELSE Unknown

SearchStarted == pc \notin {"builder", "rejected"}
SearchReturned == pc = "done" /\ result.some
SearchSucceeded == SearchReturned /\ result.val.ok
SearchFailed == SearchReturned /\ ~result.val.ok

ExtractRan == Requested("file_open") \/ Requested("download")

\* what the extractor made of the archive source it was given
ExtractorOutput ==
  IF Requested("file_open")
  THEN extract_examples_from_file(env["file"].reply, self.pattern)
  ELSE extract_examples_from_download(env["download"].reply, self.pattern)

ExtractedEmpty == ExtractRan /\ ExtractorOutput.ok /\ ExtractorOutput.val = <<>>
ExtractedSome == ExtractRan /\ ExtractorOutput.ok /\ ExtractorOutput.val # <<>>

FallbackInvoked == Requested("get_crate_repo")

\* the version the resolver owes the caller in this world
ResolutionResult ==
  resolve_version(self.crate_name, self.version_spec,
                  Reply("published"), Reply("metadata"), Reply("crate_latest"))

OpenFailed == Requested("file_open") /\ ~env["file"].reply.ok

DownloadFailed ==
  /\ Requested("download")
  /\ LET response == env["download"].reply
     IN ~response.ok \/ ~response.val.success \/ ~response.val.bytes.ok

\* the archive the extractor read, if it got one
ArchiveRead ==
  IF Requested("file_open") /\ env["file"].reply.ok THEN Some(env["file"].reply.val)
  ELSE IF Requested("download") /\ ~DownloadFailed
       THEN Some(env["download"].reply.val.bytes.val)
       ELSE None

EntryFailed ==
  /\ ArchiveRead.some
  /\ \/ ~ArchiveRead.val.ok
     \/ \E i \in 1..Len(ArchiveRead.val.val) : ~ArchiveRead.val.val[i].ok

NoStepAfterResolve ==
  \A name \in {"cache_exists", "file_open", "download", "get_crate_repo", "content_api"} :
    ~Requested(name)

NoFallbackRequest == ~Requested("get_crate_repo") /\ ~Requested("content_api")

(***************************************************************************)
(* Properties of the search pipeline (Spec).                               *)
(***************************************************************************)
\* C1: the remote fallback is invoked if and only if the extraction succeeded
\* with an empty example set; a non-empty extraction is returned as it is, in
\* the same order, without a repository-URL lookup or a content-API call.
C1_FallbackIffExtractedEmpty ==
  /\ FallbackInvoked => ExtractedEmpty
  /\ (pc = "done" /\ ExtractedEmpty) => FallbackInvoked
  /\ ExtractedSome =>
       /\ SearchSucceeded
       /\ result.val.val.examples = ExtractorOutput.val
       /\ NoFallbackRequest

C1_Witness ==
  /\ SearchSucceeded
  /\ ExtractedEmpty
  /\ Requested("content_api")
  /\ result.val.val.total_examples = 2

\* C2: a failed version resolution or a failed extraction (open, download,
\* archive entry) is what search returns; no later step runs, the fallback is
\* not invoked and no SearchResult is returned.
C2_ErrorsAreReturned ==
  /\ (SearchStarted /\ ~ResolutionResult.ok) =>
       /\ SearchFailed
       /\ result.val = ResolutionResult
       /\ NoStepAfterResolve
  /\ (OpenFailed \/ DownloadFailed \/ EntryFailed \/ (ExtractRan /\ ~ExtractorOutput.ok)) =>
       /\ SearchFailed
       /\ result.val = ExtractorOutput
       /\ NoFallbackRequest

C2_Witness ==
  /\ SearchFailed
  /\ version.some
  /\ EntryFailed
  /\ ArchiveRead.val.ok
  /\ Len(ArchiveRead.val.val) = 2
  /\ ArchiveRead.val.val[1].ok

\* C7: an unparseable pattern is rejected by pattern() before any request to
\* the outside world; a valid pattern is compiled once, and that compiled
\* pattern is the one handed to the extractor and to the fallback.
C7_PatternCompiledOnceUpFront ==
  /\ pc \in {"builder", "rejected"} => calls = <<>>
  /\ pc = "rejected" => result.some /\ ~result.val.ok /\ result.val.kind = "Other"
  /\ self.pattern.some => RegexNew(self.pattern.val.lit) = Ok(self.pattern.val)
  /\ compiled = IF self.pattern.some \/ pc = "rejected" THEN 1 ELSE 0
  /\ \A i \in 1..Len(used) : used[i].pattern = self.pattern

C7_Witness ==
  /\ SearchSucceeded
  /\ self.pattern.some
  /\ compiled = 1
  /\ Len(used) = 2
  /\ used[1].by = "extractor" /\ used[2].by = "fallback"
  /\ result.val.val.matched_examples = 1

NumWithMatch(exs) == Cardinality({i \in 1..Len(exs) : exs[i].search_matches # <<>>})

\* C8 as stated: in every SearchResult total_examples is the number of
\* artifacts and matched_examples the number of artifacts with at least one
\* match, with or without a pattern.
C8_CountsAsStated ==
  SearchSucceeded =>
    LET r == result.val.val
    IN /\ r.total_examples = Len(r.examples)
       /\ r.matched_examples = NumWithMatch(r.examples)

\* C8 as amended: total_examples is the number of artifacts; with a pattern
\* matched_examples is the number of artifacts with at least one match;
\* without a pattern every match list is empty and matched_examples equals
\* total_examples.
C8_Counts ==
  SearchSucceeded =>
    LET r == result.val.val
    IN /\ r.total_examples = Len(r.examples)
       /\ self.pattern.some => r.matched_examples = NumWithMatch(r.examples)
       /\ ~self.pattern.some =>
            /\ \A i \in 1..Len(r.examples) : r.examples[i].search_matches = <<>>
            /\ r.matched_examples = r.total_examples

C8_Witness ==
  /\ SearchSucceeded
  /\ ~self.pattern.some
  /\ result.val.val.total_examples = 2
  /\ result.val.val.matched_examples = 2
  /\ NumWithMatch(result.val.val.examples) = 0

\* C9: when extraction yields no example and the registry declares no
\* repository URL, search succeeds with an empty example set.
C9_MissingUrlIsEmptyResult ==
  (/\ pc = "done"
   /\ ExtractedEmpty
   /\ FallbackInvoked
   /\ env["crate_repo"].reply.ok
   /\ ~env["crate_repo"].reply.val.repository.some)
  => (SearchSucceeded /\ result.val.val.total_examples = 0)

ListingFailed == Requested("content_api") /\ ~env["listing"].reply.ok

RepoHost(url) ==
  IF Len(url) >= 4 /\ url[2] = "/" /\ url[3] = "/" THEN url[4] ELSE url[1]

\* the repository URL the registry declared to the fallback
DeclaredUrl ==
  IF FallbackInvoked /\ env["crate_repo"].reply.ok
  THEN env["crate_repo"].reply.val.repository
  ELSE None

\* C11: when extraction yields no example and the declared repository URL is
\* not on the recognized host, the fallback returns an empty set without a
\* content-API call; when the host is recognized and the content API reports
\* not-found, the fallback returns an empty set as well; in both cases search
\* succeeds with total_examples = 0.
C11_NothingToFallBackToIsEmpty ==
  /\ (/\ pc = "done"
      /\ ExtractedEmpty /\ DeclaredUrl.some /\ RepoHost(DeclaredUrl.val) # "github.com") =>
       /\ SearchSucceeded
       /\ result.val.val.total_examples = 0
       /\ ~Requested("content_api")
  /\ (/\ pc = "done"
      /\ ExtractedEmpty /\ DeclaredUrl.some /\ RepoHost(DeclaredUrl.val) = "github.com"
      /\ ListingFailed /\ env["listing"].reply.msg = "NotFound") =>
       /\ SearchSucceeded
       /\ result.val.val.total_examples = 0

NumRequests(name) == Cardinality({i \in 1..Len(calls) : calls[i] = name})

\* the download came back with a status that is not a success
BadStatus ==
  /\ Requested("download")
  /\ env["download"].reply.ok
  /\ ~env["download"].reply.val.success

\* C15: a search takes one acquisition path: when the cache locator reports a
\* local archive that file is read and no download is requested; otherwise one
\* download is requested, and a status that is not a success makes the search
\* fail with the download error, with no extraction and no remote fallback.
C15_OneAcquisitionPath ==
  /\ NumRequests("file_open") + NumRequests("download") <= 1
  /\ (Requested("cache_exists") /\ pc # "extract") =>
       IF env["cache"].reply = Ok(TRUE)
       THEN /\ cached_path = Some(<<self.crate_name, version.val>>)
            /\ NumRequests("file_open") = 1 /\ NumRequests("download") = 0
       ELSE /\ cached_path = None
            /\ NumRequests("download") = 1 /\ NumRequests("file_open") = 0
  /\ BadStatus =>
       /\ SearchFailed
       /\ result.val = Err("DownloadError", "Failed to download crate: HTTP status")
       /\ examples = <<>>
       /\ NoFallbackRequest

C15_Witness ==
  /\ SearchFailed
  /\ calls = <<"cargo_metadata", "cache_exists", "download">>
  /\ cached_path = None
  /\ BadStatus
  /\ result.val.kind = "DownloadError"

\* the text `github.com` occurs somewhere in the URL
MentionsGithub(url) ==
  \E i \in 1..Len(url) : url[i] \in {"github.com", "notgithub.com", "r?mirror=github.com"}

\* C22: a repository URL on another host that only contains the text
\* `github.com`, in its path, in its query or inside a longer host name, is not
\* recognized: the search succeeds with no example and no content-API call.
C22_RecognizedByHostOnly ==
  (/\ pc = "done"
   /\ ExtractedEmpty
   /\ DeclaredUrl.some
   /\ MentionsGithub(DeclaredUrl.val)
   /\ RepoHost(DeclaredUrl.val) # "github.com") =>
    /\ SearchSucceeded
    /\ result.val.val.examples = <<>>
    /\ owner_repo = None
    /\ ~Requested("content_api")

\* C26: the outcome of the remote fallback does not depend on the resolved
\* version: what search returns after the fallback is what search_examples
\* makes of the package, the pattern, the registry record and the repository
\* contents for any version value, and the SearchResult reports the resolved
\* version next to those artifacts.
C26_FallbackIgnoresVersion ==
  (pc = "done" /\ FallbackInvoked) =>
    \A ver \in VerStrs :
      LET r == search_examples(self.crate_name, ver, self.pattern,
                               env["crate_repo"].reply, Reply("octocrab"), Reply("listing"))
      IN IF r.ok
         THEN /\ SearchSucceeded
              /\ result.val.val.examples = r.val
              /\ result.val.val.version = version.val
         ELSE result.val = r

C26_Witness ==
  /\ SearchSucceeded
  /\ FallbackInvoked
  /\ Requested("content_api")
  /\ version = Some(<<2, 0, 0>>)
  /\ result.val.val.version = <<2, 0, 0>>
  /\ result.val.val.total_examples = 2

(***************************************************************************)
(* Properties of the version resolver (SpecResolve).                       *)
(***************************************************************************)
Resolving == pc # "builder"

ConstraintGiven == Resolving /\ self.version_spec.some
ConstraintParses == ConstraintGiven /\ VersionReqParse(self.version_spec.val).ok
VersionListGiven == ConstraintParses /\ env["published"].known /\ env["published"].reply.ok

\* the positions of the published list that parse and satisfy the constraint
Satisfying ==
  LET V == env["published"].reply.val
      req == VersionReqParse(self.version_spec.val).val
  IN {i \in 1..Len(V) :
        VersionParse(V[i]).ok /\ ReqMatches(req, VersionParse(V[i]).val)}

AsVersion(str) == VersionParse(str).val

\* C3: with a constraint C and the published list V, the resolved version is
\* in V, parses, satisfies C, and no satisfying version of V is greater;
\* strings of V that do not parse are ignored and cause no error.
C3_MaxSatisfyingVersion ==
  (VersionListGiven /\ Satisfying # {}) =>
    LET V == env["published"].reply.val
    IN /\ pc = "cache"
       /\ version.some
       /\ \E i \in Satisfying : V[i] = version.val
       /\ \A j \in Satisfying : ~VersionLess(AsVersion(version.val), AsVersion(V[j]))
       /\ ~result.some

C3_Witness ==
  /\ pc = "cache"
  /\ self.version_spec = Some(<<"^", 1, 0>>)
  /\ Reply("published") = Ok(<<(<<1, 2, 3>>), (<<1, 0>>), (<<1, 0, 0>>)>>)
  /\ version = Some(<<1, 2, 3>>)

NamedInProject ==
  /\ env["metadata"].reply.ok
  /\ \E i \in 1..Len(env["metadata"].reply.val) :
       env["metadata"].reply.val[i].name = self.crate_name

\* C4: with no constraint and the package in the project's dependency
\* snapshot, the resolved version is one the snapshot pins for that package,
\* and no registry query is made.
C4_ProjectVersionWithoutRegistry ==
  (Resolving /\ ~self.version_spec.some /\ NamedInProject) =>
    LET packages == env["metadata"].reply.val
    IN /\ pc = "cache"
       /\ version.some
       /\ \E i \in 1..Len(packages) :
            /\ packages[i].name = self.crate_name
            /\ version.val = VersionToString(packages[i].version)
       /\ calls = <<"cargo_metadata">>
       /\ ~env["published"].known /\ ~env["crate_latest"].known

C4_Witness ==
  /\ pc = "cache"
  /\ ~self.version_spec.some
  /\ NamedInProject
  /\ Len(env["metadata"].reply.val) = 2
  /\ env["metadata"].reply.val[1].name = "d"
  /\ version = Some(<<3, 4, 1>>)

\* C5: with no constraint, when the package is not in the project snapshot or
\* the project metadata cannot be read, the registry's maximum version is
\* returned; resolution fails only with the failure of that registry query.
C5_FallThroughToLatest ==
  (Resolving /\ ~self.version_spec.some /\ ~NamedInProject) =>
    /\ calls = <<"cargo_metadata", "get_crate_latest">>
    /\ env["crate_latest"].known
    /\ LET crate_info == env["crate_latest"].reply
       IN IF crate_info.ok
          THEN pc = "cache" /\ version = Some(crate_info.val.max_version) /\ ~result.some
          ELSE pc = "done" /\ result = Some(crate_info)

C5_Witness ==
  /\ pc = "cache"
  /\ ~self.version_spec.some
  /\ ~env["metadata"].reply.ok
  /\ version = Some(<<1, 2, 3>>)

\* C6: with a constraint, neither the project snapshot nor the latest-version
\* query is consulted, even when the project pins the package; a malformed
\* constraint fails with the version-parse error before any query, and a
\* constraint that no published version satisfies fails with the
\* no-matching-version error.
C6_ConstraintTierIsExclusive ==
  ConstraintGiven =>
    /\ ~Requested("cargo_metadata") /\ ~Requested("get_crate_latest")
    /\ ~env["crate_latest"].known
    /\ ~ConstraintParses =>
         pc = "done" /\ result = Some(Err("VersionError", "parse")) /\ calls = <<>>
    /\ ConstraintParses =>
         /\ calls = <<"crate_versions">>
         /\ ~env["published"].reply.ok => pc = "done" /\ result = Some(env["published"].reply)
         /\ (VersionListGiven /\ Satisfying = {}) =>
              pc = "done" /\ result = Some(Err("VersionError", "no match"))

C6_Witness ==
  /\ pc = "done"
  /\ self.version_spec = Some(<<"^", 1, 0>>)
  /\ NamedInProject
  /\ Reply("published") = Ok(<<(<<0, 9, 0>>), (<<2, 0, 0>>)>>)
  /\ result = Some(Err("VersionError", "no match"))

\* the positions of the project's package list that carry the requested name
NamedAt ==
  {i \in 1..Len(env["metadata"].reply.val) :
     env["metadata"].reply.val[i].name = self.crate_name}

\* C27: with no constraint and several packages of the requested name in the
\* project's package list, the resolved version is the version of the first
\* of them in metadata order, greatest or not; it is always the version of a
\* package of that name in the list.
C27_FirstNamedPackageWins ==
  (Resolving /\ ~self.version_spec.some /\ NamedInProject) =>
    LET packages == env["metadata"].reply.val
        first == CHOOSE i \in NamedAt : \A j \in NamedAt : i <= j
    IN /\ version = Some(VersionToString(packages[first].version))
       /\ \A j \in 1..(first - 1) : packages[j].name # self.crate_name

C27_Witness ==
  /\ pc = "cache"
  /\ ~self.version_spec.some
  /\ Reply("metadata") =
       Ok(<<[name |-> "c", version |-> [major |-> 1, minor |-> 0, patch |-> 0]],
            [name |-> "c", version |-> [major |-> 3, minor |-> 4, patch |-> 1]]>>)
  /\ version = Some(<<1, 0, 0>>)

(***************************************************************************)
(* Properties of a search run again (SpecTwice).                           *)
(***************************************************************************)
\* C19: a search run again with the same package, constraint and pattern in
\* the same world returns what the first one returned: the same resolved
\* version and the same examples with the same match lists, after the same
\* requests; the first search leaves nothing behind that changes the second.
C19_SameSearchSameResult ==
  \A i \in 1..Len(earlier) :
    (pc = "done" /\ earlier[i].self = self) =>
      /\ result.val = earlier[i].result
      /\ calls = earlier[i].calls

C19_Witness ==
  /\ Len(earlier) = 1
  /\ SearchSucceeded
  /\ earlier[1].self = self
  /\ self.pattern.some
  /\ Requested("file_open")
  /\ result.val.val.total_examples = 2
  /\ result.val.val.matched_examples = 1
  /\ earlier[1].result.val.examples = result.val.val.examples

\* C20: no search creates, changes or removes an entry of the cargo cache:
\* the cache is as the locator found it, it is the same in every later
\* search, and after a search that had to download the archive the same
\* search misses the cache again and downloads again.
C20_CacheIsOnlyRead ==
  /\ Requested("cache_exists") => env["cache"].reply = Ok(cached_path.some)
  /\ \A i \in 1..Len(earlier) :
       /\ earlier[i].cache.known => env["cache"] = earlier[i].cache
       /\ earlier[i].file.known => env["file"] = earlier[i].file
       /\ ((\E k \in 1..Len(earlier[i].calls) : earlier[i].calls[k] = "download")
           /\ earlier[i].self = self
           /\ pc \in {"fallback", "listing", "done"}) =>
            /\ cached_path = None
            /\ Requested("download")
            /\ ~Requested("file_open")

C20_Witness ==
  /\ Len(earlier) = 1
  /\ SearchSucceeded
  /\ \E k \in 1..Len(earlier[1].calls) : earlier[1].calls[k] = "download"
  /\ earlier[1].result.ok
  /\ calls[Len(calls)] = "download"
  /\ result.val.val.total_examples = 1

(***************************************************************************)
(* Properties of a search whose cached archive is removed (SpecRace).      *)
(***************************************************************************)
\* the archive was in the cache when the locator looked and is gone now
CachedFileRemoved == cached_path.some /\ env["cache"].reply = Ok(FALSE)

\* C25: when find_cached_crate reported the archive and the file is removed
\* before extract_examples_from_file opens it, the search fails with the I/O
\* error of the open: no download is requested and the remote fallback is not
\* invoked.
C25_RemovedFileIsAnIoError ==
  (CachedFileRemoved /\ pc # "extract") =>
    /\ SearchFailed
    /\ result.val = Err("IoError", "NotFound")
    /\ calls[Len(calls)] = "file_open"
    /\ ~Requested("download")
    /\ NoFallbackRequest

C25_Witness ==
  /\ CachedFileRemoved
  /\ SearchFailed
  /\ result.val.kind = "IoError"
  /\ calls = <<"cargo_metadata", "cache_exists", "file_open">>

(***************************************************************************)
(* Properties of the component functions (SpecCall).                       *)
(***************************************************************************)
Returned(f) == call.some /\ call.fn = f /\ call.ret.some

\* the listed items the fallback is to scan: files with the source extension
SourceFiles(items) == SelectSeq(items, LAMBDA item : item.type = "File" /\ item.name[2] = "rs")

\* the text a listed file's transport encoding stands for
TransportText(encoded) ==
  LET decoded_bytes == Base64Decode(StripNewlines(encoded))
  IN IF decoded_bytes.ok THEN Utf8Decode(decoded_bytes.val) ELSE decoded_bytes

\* every content the listing carries decodes to a text
ContentsDecode(items) ==
  \A i \in 1..Len(items) :
    items[i].content.some => TransportText(items[i].content.val).ok

\* C12: for a successful directory listing whose contents decode, the fallback
\* yields one in-memory artifact per listed file with the source extension, in
\* listing order; no such file is left out of the result.
C12_OneArtifactPerSourceFile ==
  (/\ Returned("search_github_examples")
   /\ call.octocrab.ok /\ call.contents.ok
   /\ ContentsDecode(call.contents.val)) =>
    LET wanted == SourceFiles(call.contents.val)
        got == call.ret.val
    IN /\ got.ok
       /\ Len(got.val) = Len(wanted)
       /\ \A i \in 1..Len(wanted) : got.val[i].filename = wanted[i].name

\* an entry is an example file: a component of its path is the directory
\* `examples` and the extension of the path is `rs`
Qualifies(entry) ==
  /\ entry.ok
  /\ \E i \in 1..Len(entry.val.path) : entry.val.path[i] = <<"examples", "">>
  /\ entry.val.path # <<>>
  /\ entry.val.path[Len(entry.val.path)][2] = "rs"

\* C13: the extractor's output is the subsequence of the archive's entries
\* that are example files, in archive order, each with its file name, its
\* decoded text and its matches; every other entry contributes nothing.
C13_OutputIsExampleSubsequence ==
  (Returned("extract_examples_from_reader") /\ call.ret.val.ok) =>
    LET qualifying == SelectSeq(call.archive.val, Qualifies)
        out == call.ret.val.val
    IN /\ call.archive.ok
       /\ Len(out) = Len(qualifying)
       /\ \A i \in 1..Len(out) :
            /\ out[i].tag = "ExampleInMemory"
            /\ out[i].filename = Last(qualifying[i].val.path)
            /\ Utf8Decode(qualifying[i].val.bytes) = Ok(out[i].contents)
            /\ out[i].search_matches =
                 (IF call.pattern.some
                  THEN find_matches(out[i].contents, call.pattern.val)
                  ELSE <<>>)

C13_Witness ==
  /\ Returned("extract_examples_from_reader")
  /\ call.ret.val.ok
  /\ Len(call.archive.val) = 2
  /\ call.archive.val[1].val.path = <<Pkg, <<"examples", "">>, <<"data", "txt">>>>
  /\ call.archive.val[2].val.path = <<Pkg, <<"src", "">>, <<"examples", "">>, <<"mod", "rs">>>>
  /\ Len(call.ret.val.val) = 1
  /\ call.ret.val.val[1].filename = <<"mod", "rs">>

\* the first entry of the archive the extractor cannot get past
FirstObstacle(entries) ==
  LET stops == {i \in 1..Len(entries) :
                  ~entries[i].ok \/ (Qualifies(entries[i]) /\ ~Utf8Decode(entries[i].val.bytes).ok)}
  IN IF stops = {} THEN 0 ELSE CHOOSE i \in stops : \A j \in stops : i <= j

\* C14: a qualifying entry whose bytes are not UTF-8 makes the extraction fail:
\* no example list is returned, the file is not skipped and the examples read
\* before it are not returned; bytes that are not UTF-8 in an entry that does
\* not qualify cause no error.
C14_UndecodableExampleIsAnError ==
  (Returned("extract_examples_from_reader") /\ call.archive.ok) =>
    LET entries == call.archive.val
        stop == FirstObstacle(entries)
    IN /\ (\E i \in 1..Len(entries) :
             Qualifies(entries[i]) /\ ~Utf8Decode(entries[i].val.bytes).ok)
          => ~call.ret.val.ok
       /\ (stop # 0 /\ entries[stop].ok)
          => call.ret.val = Err("ExtractionError", "Failed to read file content")
       /\ stop = 0 => call.ret.val.ok

C14_Witness ==
  /\ Returned("extract_examples_from_reader")
  /\ Len(call.archive.val) = 2
  /\ call.archive.val[1].val.path = <<Pkg, <<"examples", "">>, <<"basic", "rs">>>>
  /\ call.archive.val[2].val.path = <<Pkg, <<"examples", "">>, <<"bad", "rs">>>>
  /\ call.ret.val = Err("ExtractionError", "Failed to read file content")

FindMatchesReturned == Returned("find_matches") \/ Returned("github_find_matches")

\* C16: find_matches returns the matches in the order they start and without
\* overlap: of two consecutive matches the second starts no earlier than the
\* first starts and no earlier than the first ends.
C16_MatchesOrderedAndDisjoint ==
  FindMatchesReturned =>
    \A i \in 1..(Len(call.ret.val) - 1) :
      LET m == call.ret.val[i]
          n == call.ret.val[i + 1]
      IN m.byte_start <= n.byte_start /\ m.byte_end <= n.byte_start

C16_Witness ==
  /\ Returned("find_matches")
  /\ call.content = <<"a", "a", "a">>
  /\ call.regex.lit = <<"a", "a">>
  /\ Len(call.ret.val) = 1
  /\ call.ret.val[1].byte_start = 0 /\ call.ret.val[1].byte_end = 2

\* C17: every match location has byte_start <= byte_end, its start line and
\* column no later than its end line and column in lexicographic order, and
\* every line and column at least 1.
C17_RangeEndsInOrder ==
  FindMatchesReturned =>
    \A i \in 1..Len(call.ret.val) :
      LET m == call.ret.val[i]
      IN /\ m.byte_start <= m.byte_end
         /\ \/ m.line_start < m.line_end
            \/ m.line_start = m.line_end /\ m.column_start <= m.column_end
         /\ m.line_start >= 1 /\ m.column_start >= 1
         /\ m.line_end >= 1 /\ m.column_end >= 1

C17_Witness ==
  /\ Returned("find_matches")
  /\ call.content = <<"b", "a", "\n">>
  /\ call.regex.lit = <<"a", "\n">>
  /\ Len(call.ret.val) = 1
  /\ call.ret.val[1].line_start = 1 /\ call.ret.val[1].column_start = 2
  /\ call.ret.val[1].line_end = 2 /\ call.ret.val[1].column_end = 1

\* the scalar values of a text that start before byte offset p
Before(content, p) == {j \in 1..Len(content) : ByteOffset(content, j) < p}

\* p is the offset of a scalar value of the text, or its end
OnBoundary(content, p) == \E k \in 1..(Len(content) + 1) : ByteOffset(content, k) = p

LineFeedsBefore(content, p) == {j \in Before(content, p) : content[j] = "\n"}

\* the scalar values between the start of p's line and p
InLineBefore(content, p) ==
  {j \in Before(content, p) : \A l \in LineFeedsBefore(content, p) : l < j}

\* C18: for a byte offset p on a scalar-value boundary, byte_to_line_col
\* returns line = 1 + the number of line feeds that start before p and
\* column = 1 + the number of scalar values between the start of that line and
\* p; so a match within one line has line_start = line_end and column_end -
\* column_start equal to the number of scalar values of the matched text.
C18_LineAndColumn ==
  /\ ((Returned("byte_to_line_col") \/ Returned("github_byte_to_line_col"))
      /\ OnBoundary(call.content, call.byte_pos)) =>
       /\ call.ret.val[1] = 1 + Cardinality(LineFeedsBefore(call.content, call.byte_pos))
       /\ call.ret.val[2] = 1 + Cardinality(InLineBefore(call.content, call.byte_pos))
  /\ (FindMatchesReturned /\ \A k \in 1..Len(call.regex.lit) : call.regex.lit[k] # "\n") =>
       \A i \in 1..Len(call.ret.val) :
         LET m == call.ret.val[i]
         IN /\ m.line_start = m.line_end
            /\ m.column_end - m.column_start = Len(call.regex.lit)

C18_Witness ==
  /\ Returned("byte_to_line_col")
  /\ call.content = <<"\n", "U", "a">>
  /\ call.byte_pos = 3
  /\ call.ret.val = <<2, 2>>

\* the part of a path below its first `examples` component
PathInExamples(path) ==
  LET at == CHOOSE i \in 1..Len(path) :
              path[i] = <<"examples", "">> /\ \A j \in 1..(i - 1) : path[j] # <<"examples", "">>
  IN SubSeq(path, at + 1, Len(path))

\* C21: the filename of an artifact extracted from an archive is the entry's
\* path in the examples directory, so that two qualifying entries at different
\* paths get different filenames.
C21_FilenameIsPathInExamples ==
  (Returned("extract_examples_from_reader") /\ call.ret.val.ok) =>
    LET qualifying == SelectSeq(call.archive.val, Qualifies)
        out == call.ret.val.val
    IN /\ \A i \in 1..Len(out) :
            <<out[i].filename>> = PathInExamples(qualifying[i].val.path)
       /\ \A i, j \in 1..Len(out) :
            qualifying[i].val.path # qualifying[j].val.path
              => out[i].filename # out[j].filename

\* the URL is scheme://github.com followed by a path
OnGithub(url) ==
  Len(url) >= 4 /\ url[2] = "/" /\ url[3] = "/" /\ url[4] = "github.com"

\* the segments of the path of a URL, the suffix aside
Segments(url) == SelectSeq(SubSeq(url, 5, Len(url)), LAMBDA t : t \notin {"/", ".git"})

\* the path of the URL begins /OWNER/REPO
HasOwnerAndRepo(url) ==
  /\ Len(url) >= 8
  /\ url[5] = "/" /\ url[6] \notin {"/", ".git"}
  /\ url[7] = "/" /\ url[8] \notin {"/", ".git"}

\* C23: for a recognized URL whose path begins /OWNER/REPO, parse_github_url
\* returns (OWNER, REPO), with or without a trailing `.git`, with or without a
\* trailing slash, and whatever path segments follow the repository name.
C23_OwnerAndRepoFromPathStart ==
  (Returned("parse_github_url") /\ OnGithub(call.url) /\ HasOwnerAndRepo(call.url)) =>
    call.ret.val = Ok([owner |-> <<call.url[6]>>, repo |-> <<call.url[8]>>])

\* C24: parse_github_url fails with the invalid-URL error for a recognized
\* URL without an owner segment or without a repository segment; it never
\* succeeds with an empty owner or repository, nor with the scheme or the host
\* name as owner or repository.
C24_MissingSegmentIsInvalidUrl ==
  (Returned("parse_github_url") /\ OnGithub(call.url)) =>
    /\ Len(Segments(call.url)) < 2 =>
         call.ret.val = Err("GitHubError", "Invalid GitHub URL format")
    /\ call.ret.val.ok =>
         \A part \in {call.ret.val.val.owner, call.ret.val.val.repo} :
           part \notin {<<>>, <<call.url[1]>>, <<call.url[4]>>}

====
